---- MODULE Spec2Model ----
(***************************************************************************)
(* Model of extract_pdf.py: extract_pdf_text(pdf_path) and the __main__    *)
(* block.  A text (a Python str) is a sequence of characters; the PDF is   *)
(* the sequence of the texts page.extract_text() yields for its pages.     *)
(* Every library call inside the try block may raise instead of returning. *)
(***************************************************************************)
EXTENDS Integers, Sequences, FiniteSets, TLC

VARIABLES
    pages,        \* the input PDF: the text extract_text() yields for each page
    pc,           \* the source line the program is about to execute
    page_num,     \* loop variable of line 19 (0 before the first iteration)
    text_content, \* the list built at lines 14 and 22
    text,         \* __main__'s text: the value extract_pdf_text returned
    outFile,      \* VISANET_user_journey_extracted.txt on disk
    oldFile,      \* the output file as it was when the run started
    stdout,       \* what was printed to standard output, in order
    stderr,       \* what was printed to the error stream, in order
    trace         \* the operations performed so far, in order

vars == <<pages, pc, page_num, text_content, text, outFile, oldFile,
          stdout, stderr, trace>>

----------------------------------------------------------------------------
(* Bounds of the model *)

MaxPages == 3

MaxLen == 1

----------------------------------------------------------------------------
(* Values *)

Char == {"a", "\n"}

Texts == UNION {[1..n -> Char] : n \in 0..MaxLen}

Documents == UNION {[1..n -> Texts] : n \in 0..MaxPages}

\* Python's None and a Python str, as the values of __main__'s text
None == [isNone |-> TRUE, str |-> <<>>]

Str(s) == [isNone |-> FALSE, str |-> s]

\* the output file: absent, or present with a content
NoFile == [exists |-> FALSE, content |-> <<>>]

File(c) == [exists |-> TRUE, content |-> c]

OldFiles == {NoFile, File(<<>>), File(<<"a">>)}

\* the separator of line 26
Separator == <<"\n", "\n">>

\* str.join (line 26): the items with the separator between consecutive ones
RECURSIVE JoinTrailing(_, _)
JoinTrailing(sep, items) ==
    IF Len(items) = 0 THEN <<>>
    ELSE Head(items) \o sep \o JoinTrailing(sep, Tail(items))

RECURSIVE JoinRec(_, _)
JoinRec(sep, items) ==
    IF Len(items) = 0 THEN <<>>
    ELSE IF Len(items) = 1 THEN Head(items)
    ELSE Head(items) \o sep \o JoinRec(sep, Tail(items))

Join(sep, items) == JoinRec(sep, items)

\* Python truthiness of `text` at line 36: None and "" are falsy
TruthyNotNone(v) == ~v.isNone

Truthy(v) == ~v.isNone /\ Len(v.str) > 0

\* lines printed to stdout / stderr, and operations recorded in the trace
Line(kind, k, t) == [kind |-> kind, page |-> k, text |-> t]

Ev(op, k) == [op |-> op, page |-> k]

----------------------------------------------------------------------------
(* State after start-up: line 33 has set pdf_path, nothing has run *)

Init ==
    /\ pages \in Documents
    /\ oldFile \in OldFiles
    /\ outFile = oldFile
    /\ pc = "L13"
    /\ page_num = 0
    /\ text_content = <<>>
    /\ text = None
    /\ stdout = <<>>
    /\ stderr = <<>>
    /\ trace = <<>>

----------------------------------------------------------------------------
(* extract_pdf_text, lines 12-30 *)

\* line 13-14: PdfReader(pdf_path) returns; text_content = []
OpenReader ==
    /\ pc = "L13"
    /\ pc' = "L16"
    /\ text_content' = <<>>
    /\ trace' = Append(trace, Ev("open", 0))
    /\ UNCHANGED <<pages, page_num, text, outFile, oldFile, stdout, stderr>>

\* line 13: PdfReader(pdf_path) raises (missing or corrupt file)
OpenReaderRaises ==
    /\ pc = "L13"
    /\ pc' = "L28"
    /\ trace' = Append(trace, Ev("open_raise", 0))
    /\ UNCHANGED <<pages, page_num, text_content, text, outFile, oldFile,
                   stdout, stderr>>

\* lines 16-17: print the page count and the rule
PrintPageCount ==
    /\ pc = "L16"
    /\ pc' = "L19"
    /\ stdout' = stdout \o <<Line("count", Len(pages), <<>>),
                             Line("rule", 0, <<>>)>>
    /\ trace' = Append(trace, Ev("count", 0))
    /\ UNCHANGED <<pages, page_num, text_content, text, outFile, oldFile,
                   stderr>>

\* line 16: len(reader.pages) raises (corrupt page tree)
PageCountRaises ==
    /\ pc = "L16"
    /\ pc' = "L28"
    /\ trace' = Append(trace, Ev("count_raise", 0))
    /\ UNCHANGED <<pages, page_num, text_content, text, outFile, oldFile,
                   stdout, stderr>>

\* lines 19-20: enumerate yields the next page; print its header
PrintHeaderZeroBased ==
    /\ pc = "L19"
    /\ page_num < Len(pages)
    /\ page_num' = page_num + 1
    /\ pc' = "L21"
    /\ stdout' = Append(stdout, Line("header", page_num, <<>>))
    /\ trace' = Append(trace, Ev("header", page_num))
    /\ UNCHANGED <<pages, text_content, text, outFile, oldFile, stderr>>

PrintHeader ==
    /\ pc = "L19"
    /\ page_num < Len(pages)
    /\ page_num' = page_num + 1
    /\ pc' = "L21"
    /\ stdout' = Append(stdout, Line("header", page_num + 1, <<>>))
    /\ trace' = Append(trace, Ev("header", page_num + 1))
    /\ UNCHANGED <<pages, text_content, text, outFile, oldFile, stderr>>

\* lines 21-22: page.extract_text() returns; append it
ExtractText ==
    /\ pc = "L21"
    /\ pc' = "L23"
    /\ text_content' = Append(text_content, pages[page_num])
    /\ trace' = Append(trace, Ev("extract", page_num))
    /\ UNCHANGED <<pages, page_num, text, outFile, oldFile, stdout, stderr>>

\* line 21: page.extract_text() raises
ExtractTextRaisesContinue ==
    /\ pc = "L21"
    /\ pc' = "L19"
    /\ trace' = Append(trace, Ev("extract_raise", page_num))
    /\ UNCHANGED <<pages, page_num, text_content, text, outFile, oldFile,
                   stdout, stderr>>

ExtractTextRaises ==
    /\ pc = "L21"
    /\ pc' = "L28"
    /\ trace' = Append(trace, Ev("extract_raise", page_num))
    /\ UNCHANGED <<pages, page_num, text_content, text, outFile, oldFile,
                   stdout, stderr>>

\* lines 23-24: print the page's text and the rule
PrintText ==
    /\ pc = "L23"
    /\ pc' = "L19"
    /\ stdout' = stdout \o <<Line("text", page_num, text_content[Len(text_content)]),
                             Line("rule", 0, <<>>)>>
    /\ trace' = Append(trace, Ev("print", page_num))
    /\ UNCHANGED <<pages, page_num, text_content, text, outFile, oldFile,
                   stderr>>

\* lines 19, 26: the loop is exhausted; return the joined text to line 34
ReturnJoined ==
    /\ pc = "L19"
    /\ page_num >= Len(pages)
    /\ pc' = "L36"
    /\ text' = Str(Join(Separator, text_content))
    /\ trace' = Append(trace, Ev("join", 0))
    /\ UNCHANGED <<pages, page_num, text_content, outFile, oldFile, stdout,
                   stderr>>

\* lines 28-30: the handler prints the diagnostic and returns None to line 34
HandleExceptionSilent ==
    /\ pc = "L28"
    /\ pc' = "L36"
    /\ text' = None
    /\ trace' = Append(trace, Ev("except", 0))
    /\ UNCHANGED <<pages, page_num, text_content, outFile, oldFile, stdout,
                   stderr>>

HandleExceptionPartial ==
    /\ pc = "L28"
    /\ pc' = "L36"
    /\ stderr' = Append(stderr, Line("error", 0, <<>>))
    /\ text' = Str(Join(Separator, text_content))
    /\ trace' = Append(trace, Ev("except", 0))
    /\ UNCHANGED <<pages, page_num, text_content, outFile, oldFile, stdout>>

HandleExceptionRollback ==
    /\ pc = "L28"
    /\ pc' = "L36"
    /\ stderr' = Append(stderr, Line("error", 0, <<>>))
    /\ stdout' = <<>>
    /\ text' = None
    /\ trace' = Append(trace, Ev("except", 0))
    /\ UNCHANGED <<pages, page_num, text_content, outFile, oldFile>>

HandleException ==
    /\ pc = "L28"
    /\ pc' = "L36"
    /\ stderr' = Append(stderr, Line("error", 0, <<>>))
    /\ text' = None
    /\ trace' = Append(trace, Ev("except", 0))
    /\ UNCHANGED <<pages, page_num, text_content, outFile, oldFile, stdout>>

----------------------------------------------------------------------------
(* __main__, lines 36-40 *)

\* line 36: `if text:` is false; the program ends
SkipWritePrintsSuccess ==
    /\ pc = "L36"
    /\ ~Truthy(text)
    /\ pc' = "done"
    /\ stdout' = Append(stdout, Line("success", 0, <<>>))
    /\ trace' = Append(trace, Ev("success", 0))
    /\ UNCHANGED <<pages, page_num, text_content, text, outFile, oldFile,
                   stderr>>

SkipWrite ==
    /\ pc = "L36"
    /\ ~Truthy(text)
    /\ pc' = "done"
    /\ UNCHANGED <<pages, page_num, text_content, text, outFile, oldFile,
                   stdout, stderr, trace>>

\* line 36 true, line 38: open(..., "w") creates or truncates the file
OpenedAppend == File(outFile.content)

Opened == File(<<>>)

OpenOutput ==
    /\ pc = "L36"
    /\ Truthy(text)
    /\ pc' = "L39"
    /\ outFile' = Opened
    /\ trace' = Append(trace, Ev("open_out", 0))
    /\ UNCHANGED <<pages, page_num, text_content, text, oldFile, stdout,
                   stderr>>

\* line 39 and the end of the with block: write the text, close the file
WriteOutput ==
    /\ pc = "L39"
    /\ pc' = "L40"
    /\ outFile' = File(outFile.content \o text.str)
    /\ trace' = Append(trace, Ev("write", 0))
    /\ UNCHANGED <<pages, page_num, text_content, text, oldFile, stdout,
                   stderr>>

\* line 40: print the confirmation; the program ends
PrintSuccess ==
    /\ pc = "L40"
    /\ pc' = "done"
    /\ stdout' = Append(stdout, Line("success", 0, <<>>))
    /\ trace' = Append(trace, Ev("success", 0))
    /\ UNCHANGED <<pages, page_num, text_content, text, outFile, oldFile,
                   stderr>>

----------------------------------------------------------------------------

Next ==
    \/ OpenReader
    \/ OpenReaderRaises
    \/ PrintPageCount
    \/ PageCountRaises
    \/ PrintHeader
    \/ ExtractText
    \/ ExtractTextRaises
    \/ PrintText
    \/ ReturnJoined
    \/ HandleException
    \/ SkipWrite
    \/ OpenOutput
    \/ WriteOutput
    \/ PrintSuccess

Spec == Init /\ [][Next]_vars

\* single-threaded, synchronous: the interpreter always takes the next step
FairSpec == Spec /\ WF_vars(Next)

----------------------------------------------------------------------------
(* Vocabulary of the properties *)

Has(op) == \E i \in DOMAIN trace : trace[i].op = op

At(op, k) == {i \in DOMAIN trace : trace[i] = Ev(op, k)}

\* every occurrence of the second operation has the first one before it
Precedes(op1, k1, op2, k2) ==
    \A i \in At(op2, k2) : \E j \in At(op1, k1) : j < i

Raised == Has("open_raise") \/ Has("count_raise") \/ Has("extract_raise")

Returned == pc \in {"L36", "L39", "L40", "done"}

SuccessPrinted == \E i \in DOMAIN stdout : stdout[i].kind = "success"

IsHeader(e) == e.op = "header"

IsAttempt(e) == e.op \in {"extract", "extract_raise"}

IsPrint(e) == e.op = "print"

IsPageLine(l) == l.kind \in {"header", "text"}

\* the pages of the selected operations are 1, 2, 3, ... in this order
Consecutive(events) == \A i \in DOMAIN events : events[i].page = i

\* where page i starts in the joined document
RECURSIVE PageOffset(_, _)
PageOffset(doc, i) ==
    IF i = 1 THEN 0
    ELSE PageOffset(doc, i - 1) + Len(doc[i - 1]) + Len(Separator)

\* c is the texts of doc in order with one separator between consecutive
\* texts and nothing else
IsJoinedDocument(c, doc) ==
    IF Len(doc) = 0 THEN c = <<>>
    ELSE /\ Len(c) = PageOffset(doc, Len(doc)) + Len(doc[Len(doc)])
         /\ \A i \in 1..Len(doc) :
               SubSeq(c, PageOffset(doc, i) + 1,
                         PageOffset(doc, i) + Len(doc[i])) = doc[i]
         /\ \A i \in 1..(Len(doc) - 1) :
               SubSeq(c, PageOffset(doc, i) + Len(doc[i]) + 1,
                         PageOffset(doc, i + 1)) = Separator

\* what lines 16-24 have printed when pages 1..k-1 are done
RECURSIVE PrintedPages(_)
PrintedPages(k) ==
    IF k = 0 THEN <<Line("count", Len(pages), <<>>), Line("rule", 0, <<>>)>>
    ELSE PrintedPages(k - 1) \o <<Line("header", k, <<>>),
                                  Line("text", k, pages[k]),
                                  Line("rule", 0, <<>>)>>

----------------------------------------------------------------------------
(* Properties *)

\* C1: for every valid PDF (no exception raised, any number of pages, any
\* page texts, empty ones included) the output file exists when the run ends.
C1_ValidPdfOutputExists ==
    (pc = "done" /\ ~Raised) => outFile.exists

\* C2: whenever the output file has been written, its content is the page
\* texts 1..n in page order joined by "\n\n": n-1 separators, no leading or
\* trailing separator, and nothing else (no stdout decoration).
C2_FileIsJoinedPages ==
    Has("write") =>
        /\ outFile.exists
        /\ Len(pages) >= 1
        /\ IsJoinedDocument(outFile.content, pages)

C2_Witness ==
    /\ pc = "done"
    /\ Has("write")
    /\ Len(pages) >= 3
    /\ \E i \in DOMAIN pages : pages[i] = <<>>
    /\ \E i \in DOMAIN pages : pages[i] = <<"\n">>
    /\ \E i \in DOMAIN pages : pages[i] = <<"a">>

\* C3: when an exception is raised while opening the PDF, reading the page
\* count or extracting a page, the run ends with the output file not created
\* (left as it was) and one 'Error extracting PDF' line on the error stream.
C3_FailureNoFileAndDiagnostic ==
    (pc = "done" /\ Raised) =>
        /\ outFile = oldFile
        /\ ~Has("open_out")
        /\ ~Has("write")
        /\ stderr = <<Line("error", 0, <<>>)>>

C3_Witness ==
    /\ pc = "done"
    /\ Has("extract_raise")
    /\ page_num = 2
    /\ Len(text_content[1]) > 0
    /\ oldFile = NoFile
    /\ ~outFile.exists
    /\ Len(stderr) = 1

\* C4: extract_pdf_text returns the join of ALL pages or None, never a
\* partial join: after any raise the result is None, whatever was extracted.
C4_AllOrNone ==
    Returned =>
        /\ Raised => text = None
        /\ ~Raised => /\ ~text.isNone
                      /\ text_content = pages
                      /\ IsJoinedDocument(text.str, pages)

C4_Witness ==
    /\ Returned
    /\ Has("extract_raise")
    /\ page_num >= 2
    /\ Len(text_content) = page_num - 1
    /\ Len(text_content[1]) > 0
    /\ text = None

\* C5: the operations occur in the order open, page count, then for each
\* page k = 1, 2, ... (none skipped or repeated) header k, extract k, print
\* k, then join, then open the output file, then write.
C5_OperationOrder ==
    /\ \A i \in DOMAIN trace :
          (trace[i].op \in {"open", "open_raise"}) <=> (i = 1)
    /\ \A i \in DOMAIN trace :
          trace[i].op \in {"header", "extract", "extract_raise", "print"}
              => \E j \in 1..(i - 1) : trace[j].op = "count"
    /\ stdout # <<>> => stdout[1].kind = "count"
    /\ Consecutive(SelectSeq(trace, IsHeader))
    /\ Consecutive(SelectSeq(trace, IsAttempt))
    /\ Consecutive(SelectSeq(trace, IsPrint))
    /\ \A i \in DOMAIN SelectSeq(stdout, IsPageLine) :
          LET l == SelectSeq(stdout, IsPageLine)[i]
          IN  /\ l.kind = (IF i % 2 = 1 THEN "header" ELSE "text")
              /\ l.page = (i + 1) \div 2
    /\ \A k \in 1..Len(pages) :
          /\ Precedes("header", k, "extract", k)
          /\ Precedes("header", k, "extract_raise", k)
          /\ Precedes("extract", k, "print", k)
          /\ Precedes("print", k, "header", k + 1)
          /\ Precedes("extract", k, "join", 0)
          /\ Precedes("print", k, "join", 0)
          /\ Precedes("extract", k, "open_out", 0)
          /\ Precedes("print", k, "open_out", 0)
    /\ Precedes("count", 0, "join", 0)
    /\ Precedes("join", 0, "open_out", 0)
    /\ Precedes("open_out", 0, "write", 0)

C5_Witness ==
    /\ pc = "done"
    /\ Has("write")
    /\ Len(pages) >= 3
    /\ Len(SelectSeq(trace, IsPrint)) = Len(pages)

\* C6: the success confirmation is never printed unless the output file was
\* written, and when it is printed the write has completed before it; after
\* a failed extraction it is not printed.
C6_SuccessOnlyAfterWrite ==
    /\ SuccessPrinted <=> Has("success")
    /\ Has("success") =>
          /\ Has("write")
          /\ outFile = File(text.str)
          /\ ~Raised
    /\ Precedes("write", 0, "success", 0)

C6_Witness ==
    /\ pc = "done"
    /\ SuccessPrinted
    /\ outFile = File(text.str)

\* the extraction attempts are pages 1, 2, ... each once, at most n of them,
\* and a raising attempt is the last one
C7_AttemptsBounded ==
    LET attempts == SelectSeq(trace, IsAttempt)
    IN  /\ Len(attempts) <= Len(pages)
        /\ Consecutive(attempts)
        /\ \A i \in DOMAIN attempts :
              attempts[i].op = "extract_raise" => i = Len(attempts)
        /\ (pc = "done" /\ ~Raised) => Len(attempts) = Len(pages)
        /\ (pc = "done" /\ Has("extract_raise")) =>
              /\ Len(attempts) = page_num
              /\ attempts[page_num].op = "extract_raise"

\* C7: the run terminates; it attempts at most n extractions, exactly n when
\* nothing raises, and exactly k when page k is the first to raise: no page
\* after k is attempted and no page is attempted twice.
C7_TerminatesWithinNExtractions ==
    /\ <>(pc = "done")
    /\ []C7_AttemptsBounded

C7_Witness ==
    /\ pc = "done"
    /\ Has("extract_raise")
    /\ page_num = 2
    /\ Len(pages) >= 3

\* C8: the output file is written iff extract_pdf_text returned a non-empty
\* string.  No exception and an empty join (zero pages, or one empty page):
\* no file, no success message, nothing on the error stream.  Two or more
\* pages, all empty: the result is separators only and the file is written.
C8_WrittenIffNonEmpty ==
    pc = "done" =>
        /\ Has("write") <=> (~text.isNone /\ text.str # <<>>)
        /\ (~Raised /\ (Len(pages) = 0 \/ pages = <<<<>>>>)) =>
              /\ text = Str(<<>>)
              /\ outFile = oldFile
              /\ ~Has("open_out")
              /\ ~SuccessPrinted
              /\ stderr = <<>>
        /\ (~Raised /\ Len(pages) >= 2
                /\ \A i \in DOMAIN pages : pages[i] = <<>>) =>
              /\ Has("write")
              /\ SuccessPrinted
              /\ Len(outFile.content) = 2 * (Len(pages) - 1)
              /\ \A i \in DOMAIN outFile.content : outFile.content[i] = "\n"

C8_Witness ==
    /\ pc = "done"
    /\ ~Raised
    /\ pages = <<<<>>>>
    /\ oldFile = NoFile
    /\ ~outFile.exists

\* C9: output already printed is not rolled back: once extracting page k has
\* raised, stdout holds the page count line, the headers and texts of pages
\* 1..k-1 and the header of page k without its text, while the function
\* returns None and the output file is left alone.
C9_StdoutKeptOnFailure ==
    Has("extract_raise") =>
        /\ stdout = PrintedPages(page_num - 1)
                        \o <<Line("header", page_num, <<>>)>>
        /\ Returned => text = None
        /\ outFile = oldFile

C9_Witness ==
    /\ pc = "done"
    /\ Has("extract_raise")
    /\ page_num = 3
    /\ Len(stdout) = 9

\* C10: only the final write touches the output file: until line 38 it is as
\* it was at the start; a run that ends without writing leaves a previous
\* file with its previous content; a run that writes replaces the previous
\* content with the text, it does not append to it.
C10_OnlyFinalWriteTouchesFile ==
    /\ pc \in {"L13", "L16", "L19", "L21", "L23", "L28", "L36"}
          => outFile = oldFile
    /\ (pc = "done" /\ ~Has("write")) => outFile = oldFile
    /\ Has("write") => outFile = File(text.str)

C10_Witness ==
    /\ pc = "done"
    /\ Has("write")
    /\ oldFile = File(<<"a">>)
    /\ outFile.content # oldFile.content \o text.str

====
